---- MODULE Spec2Model ----
(***************************************************************************)
(* Model of the PIC18 I2C register-access layer (I2CDevice.c) and of the   *)
(* bus it drives.  The bus primitives are state transformers on a bus      *)
(* record (the event trace seen on the wires and the state of the slave);  *)
(* the register-access functions compose them in the order of the C code.  *)
(***************************************************************************)
EXTENDS Integers, Sequences, FiniteSets, TLC

VARIABLES
    pc,        \* position of the program: "idle" between API calls
    call,      \* the API call in progress or just returned, with its arguments
    prev,      \* the write call that returned immediately before (see Follows, Return)
    b,         \* local b of the bit functions (the byte read, then the byte written)
    ret,       \* return value of the last value-returning API call
    bus,       \* [trace, mem, ptr, sl]: bus events of the current call and the slave
    lossless,  \* TRUE: no collision occurs and the slave acknowledges every byte
    instructionByte,  \* the global of AD524X.c
    agent,     \* byte another bus agent stored in the register during the call, or NoAgent
    mssp,      \* the MSSP peripheral: mode, the flag being driven, WCOL, ACKSTAT
    exec       \* statement-level position of a call executed primitive by primitive

vars == <<pc, call, prev, b, ret, bus, lossless, instructionByte, agent, mssp, exec>>

\* the state only the AD524X driver, another bus agent and the statement-level
\* execution touch
aside == <<instructionByte, agent, mssp, exec>>

----------------------------------------------------------------------------
(* Bounds of the model and the input sets drawn from.                      *)

MaxLen == 2

Byte == 0..255

DevAddrs == {176, 177}        \* 0xB0 (write form) and 0xB1 (bit 0 set by the caller)
RegAddrs == {0, 255}
DataVals == {16, 165}         \* 0x10, 0xA5

BitDevs == {176}
BitRegs == {0}
BitVals == {0, 255}
BitFields == {<<bitStart, length>> \in (0..7) \X (1..8) : bitStart >= length - 1}
\* fields written: those touching bit 0 or bit 7, and the field of the source's comment
WriteFields == {f \in BitFields : f[1] = f[2] - 1 \/ f[1] = 7 \/ f = <<4, 3>>}
UBVals == {0, 255}

\* the registers a transfer of at most MaxLen bytes can touch (pointer wraps at 8 bits)
Cells == {(a + k) % 256 : a \in RegAddrs, k \in 0..(MaxLen - 1)}

\* the slave's register pointer when it points at none of the modelled registers
Outside == 256

PtrTo(S, a) == IF a \in DOMAIN S.mem THEN a ELSE Outside

PtrNext(S) == IF S.ptr = Outside THEN Outside ELSE PtrTo(S, (S.ptr + 1) % 256)

----------------------------------------------------------------------------
(* C integer arithmetic on unsigned char operands promoted to int.         *)

IntBits == 16

RECURSIVE BitAnd(_, _)
BitAnd(x, y) ==
    IF x = 0 \/ y = 0 THEN 0
    ELSE (x % 2) * (y % 2) + 2 * BitAnd(x \div 2, y \div 2)

RECURSIVE BitOr(_, _)
BitOr(x, y) ==
    IF x = 0 THEN y
    ELSE IF y = 0 THEN x
    ELSE (IF x % 2 = 1 \/ y % 2 = 1 THEN 1 ELSE 0) + 2 * BitOr(x \div 2, y \div 2)

Shl(x, k) == x * (2 ^ k)

Shr(x, k) == x \div (2 ^ k)

\* ~x on the bit pattern of an int
BitNot(x) == (2 ^ IntBits - 1) - x

\* conversion of an int result to unsigned char
ToUChar(x) == x % 256

----------------------------------------------------------------------------
(* Bus signalling primitives.                                              *)

Ev(e, byte, st) == [ev |-> e, byte |-> byte, st |-> st]

I2C_WCOL == 255
I2C_NACK == 254

HwOutcomes ==
    IF lossless
    THEN {[WCOL |-> FALSE, ACKSTAT |-> FALSE]}
    ELSE {[WCOL |-> FALSE, ACKSTAT |-> FALSE],
          [WCOL |-> FALSE, ACKSTAT |-> TRUE],
          [WCOL |-> TRUE, ACKSTAT |-> FALSE]}

HwSeqs(k) == [1..k -> HwOutcomes]

I2CStart(S) ==
    [S EXCEPT !.trace = Append(@, Ev("Start", 0, 0)), !.sl = "addr"]

\* mutant: a start condition in place of the repeated start
I2CRestartAsStart(S) == I2CStart(S)

I2CRestart(S) ==
    [S EXCEPT !.trace = Append(@, Ev("Restart", 0, 0)), !.sl = "addr"]

I2CStop(S) ==
    [S EXCEPT !.trace = Append(@, Ev("Stop", 0, 0)), !.sl = "idle"]

I2CAck(S) ==
    [S EXCEPT !.trace = Append(@, Ev("Ack", 0, 0))]

I2CNotAck(S) ==
    [S EXCEPT !.trace = Append(@, Ev("NotAck", 0, 0))]

\* mutant: a byte that is not acknowledged is reported as success
I2CWriteStatusNackAsSuccess(hw) ==
    IF hw.WCOL THEN I2C_WCOL ELSE 0

\* status returned by I2CWrite in master mode
I2CWriteStatus(hw) ==
    IF hw.WCOL THEN I2C_WCOL
    ELSE IF hw.ACKSTAT THEN I2C_NACK
    ELSE 0

\* what a byte that was clocked out and acknowledged does to the slave
SlaveReceive(S, byte) ==
    CASE S.sl = "addr" ->
            [S EXCEPT !.sl = IF byte % 2 = 0 THEN "reg" ELSE "tx"]
      [] S.sl = "reg" ->
            [S EXCEPT !.ptr = PtrTo(S, byte), !.sl = "data"]
      [] S.sl = "data" ->
            [S EXCEPT !.mem = IF S.ptr \in DOMAIN S.mem
                                THEN [@ EXCEPT ![S.ptr] = byte] ELSE @,
                      !.ptr = PtrNext(S)]
      [] OTHER -> S

I2CWrite(S, data_out, hw) ==
    LET T == [S EXCEPT !.trace = Append(@, Ev("Write", data_out, I2CWriteStatus(hw)))]
    IN  IF hw.WCOL THEN T
        ELSE IF hw.ACKSTAT
             THEN [T EXCEPT !.sl = IF @ = "addr" THEN "idle" ELSE @]
             ELSE SlaveReceive(T, data_out)

\* the byte the receive buffer holds after one I2CRead
I2CReadValue(S) ==
    IF S.sl = "tx" /\ S.ptr \in DOMAIN S.mem THEN S.mem[S.ptr] ELSE 255

I2CRead(S) ==
    [S EXCEPT !.trace = Append(@, Ev("Read", I2CReadValue(S), 0)),
              !.ptr = IF S.sl = "tx" THEN PtrNext(S) ELSE @]

----------------------------------------------------------------------------
(* Register access layer: byte transactions.                               *)

\* mutant: the direction bit is left as the caller passed it
WriteAddressNoMask(deviceAddress) == deviceAddress

WriteAddress(deviceAddress) == BitAnd(deviceAddress, 254)

\* mutant: the read direction bit is not set
ReadAddressNoDirection(deviceAddress) == deviceAddress

ReadAddress(deviceAddress) == BitOr(deviceAddress, 1)

\* mutant: data[0] instead of data[i]
DataAtFirst(data, i) == data[1]

\* data[i] of a C buffer held as a sequence
DataAt(data, i) == data[i + 1]

\* mutant: the last byte is tested for with i == length
ReadAckPhaseOffByOne(S, i, length) ==
    IF i = length THEN I2CNotAck(S) ELSE I2CAck(S)

\* the acknowledge phase after byte i of a read of length bytes
ReadAckPhase(S, i, length) ==
    IF i = length - 1 THEN I2CNotAck(S) ELSE I2CAck(S)

RECURSIVE ReadBytesLoop(_, _, _)
ReadBytesLoop(R, i, length) ==
    IF i < length
    THEN ReadBytesLoop(
             [bus  |-> ReadAckPhase(I2CRead(R.bus), i, length),
              data |-> [R.data EXCEPT ![i + 1] = I2CReadValue(R.bus)]],
             i + 1, length)
    ELSE R

I2CDeviceReadBytes(S, deviceAddress, address, length, data, hw) ==
    LET s1 == I2CStart(S)
        s2 == I2CWrite(s1, WriteAddress(deviceAddress), hw[1])
        s3 == I2CWrite(s2, address, hw[2])
        s4 == I2CRestart(s3)
        s5 == I2CWrite(s4, ReadAddress(deviceAddress), hw[3])
        R  == ReadBytesLoop([bus |-> s5, data |-> data], 0, length)
    IN  [bus |-> I2CStop(R.bus), data |-> R.data]

RECURSIVE WriteBytesLoop(_, _, _, _, _)
WriteBytesLoop(S, i, length, data, hw) ==
    IF i < length
    THEN WriteBytesLoop(I2CWrite(S, DataAt(data, i), hw[i + 3]), i + 1, length, data, hw)
    ELSE S

\* mutant: returns as soon as the device address is not acknowledged
I2CDeviceWriteBytesReturnOnNack(S, deviceAddress, address, length, data, hw) ==
    LET s1 == I2CStart(S)
        s2 == I2CWrite(s1, WriteAddress(deviceAddress), hw[1])
        s3 == I2CWrite(s2, address, hw[2])
        s4 == WriteBytesLoop(s3, 0, length, data, hw)
    IN  IF I2CWriteStatus(hw[1]) # 0 THEN s2 ELSE I2CStop(s4)

I2CDeviceWriteBytes(S, deviceAddress, address, length, data, hw) ==
    LET s1 == I2CStart(S)
        s2 == I2CWrite(s1, WriteAddress(deviceAddress), hw[1])
        s3 == I2CWrite(s2, address, hw[2])
        s4 == WriteBytesLoop(s3, 0, length, data, hw)
    IN  I2CStop(s4)

I2CDeviceReadByte(S, deviceAddress, address, hw) ==
    LET R == I2CDeviceReadBytes(S, deviceAddress, address, 1, <<0>>, hw)
    IN  [bus |-> R.bus, b |-> R.data[1]]

I2CDeviceWriteByte(S, deviceAddress, address, value, hw) ==
    I2CDeviceWriteBytes(S, deviceAddress, address, 1, <<value>>, hw)

----------------------------------------------------------------------------
(* Register access layer: bit-field arithmetic.                            *)

\* 1 << k is defined only when the result fits an int
ShiftDefined(k) == k < IntBits - 1

\* return expression of I2CDeviceReadBit
ReadBitValue(bv, bit) == ToUChar(BitAnd(bv, Shl(1, bit)))

\* the extraction loop of I2CDeviceReadBits: i is an unsigned char, the condition
\* is evaluated on ints, so bitStart - length may be negative
RECURSIVE ReadBitsLoop(_, _, _, _, _)
ReadBitsLoop(bv, i, r, bitStart, length) ==
    IF i > bitStart - length
    THEN IF ShiftDefined(i)
         THEN ReadBitsLoop(bv, ToUChar(i - 1),
                           ToUChar(BitOr(r, BitAnd(bv, Shl(1, i)))),
                           bitStart, length)
         ELSE [undefined |-> TRUE, r |-> r]
    ELSE [undefined |-> FALSE, r |-> r]

\* the shift amounts i that the extraction loop evaluates 1 << i with, in order,
\* up to and including the first undefined one
RECURSIVE ReadBitsShifts(_, _, _, _)
ReadBitsShifts(i, bitStart, length, shifts) ==
    IF i > bitStart - length
    THEN IF ShiftDefined(i)
         THEN ReadBitsShifts(ToUChar(i - 1), bitStart, length, Append(shifts, i))
         ELSE Append(shifts, i)
    ELSE shifts

\* r >>= (bitStart - length + 1)
ReadBitsAlign(r, bitStart, length) == Shr(r, bitStart - length + 1)

\* mutant: the complement is missing when the bit is cleared
WriteBitByteNoComplement(bv, bit, value) ==
    IF value # 0
    THEN ToUChar(BitOr(bv, Shl(1, bit)))
    ELSE ToUChar(BitAnd(bv, Shl(1, bit)))

\* b = value ? (b | (1 << _bit)) : (b & ~(1 << _bit))
WriteBitByte(bv, bit, value) ==
    IF value # 0
    THEN ToUChar(BitOr(bv, Shl(1, bit)))
    ELSE ToUChar(BitAnd(bv, BitNot(Shl(1, bit))))

\* mask = (0xFF << (8 - length)) | (0xFF >> (bitStart + length - 1))
WriteBitsMask(bitStart, length) ==
    ToUChar(BitOr(Shl(255, 8 - length), Shr(255, bitStart + length - 1)))

\* value <<= (8 - length); value >>= (7 - bitStart)
WriteBitsValue(value, bitStart, length) ==
    ToUChar(Shr(ToUChar(Shl(value, 8 - length)), 7 - bitStart))

\* mutant: the byte read is dropped, only the shifted value is written
WriteBitsByteDropsRead(bv, bitStart, length, value) ==
    WriteBitsValue(value, bitStart, length)

\* b &= mask; b |= value
WriteBitsByte(bv, bitStart, length, value) ==
    BitOr(BitAnd(bv, WriteBitsMask(bitStart, length)),
          WriteBitsValue(value, bitStart, length))

----------------------------------------------------------------------------
(* The program: one API call after the other.                              *)

\* no other agent has touched the register during the call
NoAgent == -1

\* the peripheral at rest in master mode, and no statement-level execution
MsspIdle == [SSPM |-> 8, flag |-> "none", WCOL |-> FALSE, ACKSTAT |-> FALSE, stalled |-> FALSE]

NoExec == [line |-> 0, prim |-> "none", i |-> 0]

NoCall ==
    [fn |-> "none", deviceAddress |-> 0, address |-> 0, length |-> 0,
     data |-> <<>>, bit |-> 0, value |-> 0]

Call(fn, deviceAddress, address, length, data, bit, value) ==
    [fn |-> fn, deviceAddress |-> deviceAddress, address |-> address,
     length |-> length, data |-> data, bit |-> bit, value |-> value]

SameTarget(c, d) ==
    /\ c.deviceAddress = d.deviceAddress
    /\ c.address = d.address
    /\ c.length = d.length
    /\ c.bit = d.bit

\* at call entry prev holds the write that returned last, if no other call
\* returned since; it is kept during the new call c when c has the same target
Follows(c) == IF SameTarget(prev, c) THEN prev ELSE NoCall

ZeroBuf(length) == [k \in 1..length |-> 0]

CallReadBytes ==
    /\ pc = "idle"
    /\ \E deviceAddress \in DevAddrs, address \in RegAddrs, length \in 0..MaxLen :
         \E hw \in HwSeqs(3) :
           LET R == I2CDeviceReadBytes(bus, deviceAddress, address, length,
                                       ZeroBuf(length), hw)
               c == Call("ReadBytes", deviceAddress, address, length, R.data, 0, 0)
           IN  /\ bus' = R.bus
               /\ call' = c
               /\ prev' = Follows(c)
    /\ pc' = "done"
    /\ UNCHANGED <<b, ret, lossless>>
    /\ UNCHANGED aside

CallWriteBytes ==
    /\ pc = "idle"
    /\ \E deviceAddress \in DevAddrs, address \in RegAddrs, length \in 0..MaxLen :
         \E data \in [1..length -> DataVals], hw \in HwSeqs(length + 2) :
           LET c == Call("WriteBytes", deviceAddress, address, length, data, 0, 0)
           IN  /\ bus' = I2CDeviceWriteBytes(bus, deviceAddress, address, length,
                                             data, hw)
               /\ call' = c
               /\ prev' = Follows(c)
    /\ pc' = "done"
    /\ UNCHANGED <<b, ret, lossless>>
    /\ UNCHANGED aside

CallReadByte ==
    /\ pc = "idle"
    /\ \E deviceAddress \in DevAddrs, address \in RegAddrs, hw \in HwSeqs(3) :
           LET R == I2CDeviceReadByte(bus, deviceAddress, address, hw)
               c == Call("ReadByte", deviceAddress, address, 1, <<R.b>>, 0, 0)
           IN  /\ bus' = R.bus
               /\ ret' = R.b
               /\ call' = c
               /\ prev' = Follows(c)
    /\ pc' = "done"
    /\ UNCHANGED <<b, lossless>>
    /\ UNCHANGED aside

CallWriteByte ==
    /\ pc = "idle"
    /\ \E deviceAddress \in DevAddrs, address \in RegAddrs, value \in DataVals :
         \E hw \in HwSeqs(3) :
           LET c == Call("WriteByte", deviceAddress, address, 1, <<value>>, 0, value)
           IN  /\ bus' = I2CDeviceWriteByte(bus, deviceAddress, address, value, hw)
               /\ call' = c
               /\ prev' = Follows(c)
    /\ pc' = "done"
    /\ UNCHANGED <<b, ret, lossless>>
    /\ UNCHANGED aside

CallReadBit ==
    /\ pc = "idle"
    /\ \E deviceAddress \in BitDevs, address \in BitRegs, hw \in HwSeqs(3) :
           LET R == I2CDeviceReadByte(bus, deviceAddress, address, hw)
           IN  \E bit \in 0..7 :
                 LET c == Call("ReadBit", deviceAddress, address, 0, <<>>, bit, 0)
                 IN  /\ bus' = R.bus
                     /\ ret' = ReadBitValue(R.b, bit)
                     /\ call' = c
                     /\ prev' = Follows(c)
    /\ pc' = "done"
    /\ UNCHANGED <<b, lossless>>
    /\ UNCHANGED aside

\* the whole of I2CDeviceReadBits; when the loop evaluates an undefined shift the
\* program is left at "undefined"
CallReadBits ==
    /\ pc = "idle"
    /\ \E deviceAddress \in BitDevs, address \in BitRegs, hw \in HwSeqs(3) :
           LET R == I2CDeviceReadByte(bus, deviceAddress, address, hw)
           IN  \E f \in BitFields :
                 LET bitStart == f[1]
                     length == f[2]
                     L == ReadBitsLoop(R.b, bitStart, 0, bitStart, length)
                     c == Call("ReadBits", deviceAddress, address, length, <<>>, bitStart, 0)
                 IN  /\ bus' = R.bus
                     /\ b' = R.b
                     /\ call' = c
                     /\ prev' = Follows(c)
                     /\ IF L.undefined
                        THEN pc' = "undefined" /\ ret' = ret
                        ELSE pc' = "done" /\ ret' = ReadBitsAlign(L.r, bitStart, length)
    /\ UNCHANGED lossless
    /\ UNCHANGED aside

\* after an undefined shift in a loop whose condition stays true: the call never
\* returns, or it returns some byte
UndefinedOutcome ==
    /\ pc = "undefined"
    /\ \/ pc' = "hang" /\ ret' = ret
       \/ pc' = "done" /\ ret' \in UBVals
    /\ UNCHANGED <<call, prev, b, bus, lossless>>
    /\ UNCHANGED aside

\* I2CDeviceWriteBit up to and including its read transaction
CallWriteBit ==
    /\ pc = "idle"
    /\ \E deviceAddress \in BitDevs, address \in BitRegs, hw \in HwSeqs(3) :
           LET R == I2CDeviceReadByte(bus, deviceAddress, address, hw)
           IN  \E bit \in 0..7, value \in BitVals :
                 LET c == Call("WriteBit", deviceAddress, address, 0, <<>>, bit, value)
                 IN  /\ bus' = R.bus
                     /\ b' = R.b
                     /\ call' = c
                     /\ prev' = Follows(c)
    /\ pc' = "WriteBit_283"
    /\ UNCHANGED <<ret, lossless>>
    /\ UNCHANGED aside

\* mutant: the byte is fetched again just before it is modified
WriteBitModifyFresh ==
    /\ pc = "WriteBit_283"
    /\ \E hw \in HwSeqs(3) :
           LET nb == WriteBitByte(bus.mem[call.address], call.bit, call.value)
           IN  /\ b' = nb
               /\ bus' = I2CDeviceWriteByte(bus, call.deviceAddress, call.address, nb, hw)
    /\ pc' = "done"
    /\ UNCHANGED <<call, prev, ret, lossless>>
    /\ UNCHANGED aside

\* the rest of I2CDeviceWriteBit: modify b and write it back
WriteBitModify ==
    /\ pc = "WriteBit_283"
    /\ \E hw \in HwSeqs(3) :
           LET nb == WriteBitByte(b, call.bit, call.value)
           IN  /\ b' = nb
               /\ bus' = I2CDeviceWriteByte(bus, call.deviceAddress, call.address, nb, hw)
    /\ pc' = "done"
    /\ UNCHANGED <<call, prev, ret, lossless>>
    /\ UNCHANGED aside

\* I2CDeviceWriteBits up to and including its read transaction
CallWriteBits ==
    /\ pc = "idle"
    /\ \E deviceAddress \in BitDevs, address \in BitRegs, hw \in HwSeqs(3) :
           LET R == I2CDeviceReadByte(bus, deviceAddress, address, hw)
           IN  \E f \in WriteFields, value \in BitVals :
                 LET c == Call("WriteBits", deviceAddress, address, f[2], <<>>, f[1], value)
                 IN  /\ bus' = R.bus
                     /\ b' = R.b
                     /\ call' = c
                     /\ prev' = Follows(c)
    /\ pc' = "WriteBits_317"
    /\ UNCHANGED <<ret, lossless>>
    /\ UNCHANGED aside

\* the rest of I2CDeviceWriteBits: mask, merge and write back
WriteBitsModify ==
    /\ pc = "WriteBits_317"
    /\ \E hw \in HwSeqs(3) :
           LET nb == WriteBitsByte(b, call.bit, call.length, call.value)
           IN  /\ b' = nb
               /\ bus' = I2CDeviceWriteByte(bus, call.deviceAddress, call.address, nb, hw)
    /\ pc' = "done"
    /\ UNCHANGED <<call, prev, ret, lossless>>
    /\ UNCHANGED aside

\* bytes another bus agent may store
OtherVals == {0, 255}

\* between the read transaction and the write transaction of I2CDeviceWriteBit or
\* I2CDeviceWriteBits the bus is free: another master, or the device itself,
\* changes the register
OtherAgentWrite ==
    /\ pc \in {"WriteBit_283", "WriteBits_317"}
    /\ \E v \in OtherVals :
         /\ bus' = [bus EXCEPT !.mem[call.address] = v]
         /\ agent' = v
    /\ UNCHANGED <<pc, call, prev, b, ret, lossless, instructionByte, mssp, exec>>

IsWrite(c) == c.fn \in {"WriteBytes", "WriteByte", "WriteBit", "WriteBits"}

\* the call returns to its caller: its locals and the log of its bus events are
\* dropped; a write that completed on a lossless bus is remembered as the last call
Return ==
    /\ pc = "done"
    /\ pc' = "idle"
    /\ prev' = IF lossless /\ IsWrite(call) THEN call ELSE NoCall
    /\ call' = NoCall
    /\ b' = 0
    /\ ret' = 0
    /\ bus' = [bus EXCEPT !.trace = <<>>]
    /\ agent' = NoAgent
    /\ UNCHANGED <<lossless, instructionByte, mssp, exec>>

Init ==
    /\ pc = "idle"
    /\ instructionByte = 0
    /\ agent = NoAgent
    /\ mssp = MsspIdle
    /\ exec = NoExec
    /\ call = NoCall
    /\ prev = NoCall
    /\ b = 0
    /\ ret = 0
    /\ lossless \in BOOLEAN
    /\ bus = [trace |-> <<>>, mem |-> [a \in Cells |-> 0], ptr |-> 0, sl |-> "idle"]

Next ==
    \/ CallReadBytes
    \/ CallWriteBytes
    \/ CallReadByte
    \/ CallWriteByte
    \/ Return

Spec == Init /\ [][Next]_vars

\* the bit functions against a single-register device on a lossless bus, from
\* every register content
InitBits ==
    /\ pc = "idle"
    /\ instructionByte = 0
    /\ agent = NoAgent
    /\ mssp = MsspIdle
    /\ exec = NoExec
    /\ call = NoCall
    /\ prev = NoCall
    /\ b = 0
    /\ ret = 0
    /\ lossless = TRUE
    /\ \E m \in Byte :
         bus = [trace |-> <<>>, mem |-> [a \in BitRegs |-> m], ptr |-> 0, sl |-> "idle"]

NextBits ==
    \/ CallReadBit
    \/ CallReadBits
    \/ UndefinedOutcome
    \/ CallWriteBit
    \/ WriteBitModify
    \/ CallWriteBits
    \/ WriteBitsModify
    \/ Return

SpecBits == InitBits /\ [][NextBits]_vars

\* the read-modify-write functions with another agent on the bus
NextRace ==
    \/ CallWriteBit
    \/ WriteBitModify
    \/ CallWriteBits
    \/ WriteBitsModify
    \/ OtherAgentWrite
    \/ Return

SpecRace == InitBits /\ [][NextRace]_vars

----------------------------------------------------------------------------
(* AD524X.c: the driver of the digital potentiometer.  Every function      *)
(* changes the global instructionByte and passes it as the register        *)
(* address of one write transaction.                                       *)

\* the write form of the potentiometer's bus address
AD5241_DEVICE_ADDRESS == 176

\* I2CDeviceSetDeviceAddress(AD5241_DEVICE_ADDRESS) followed by a write call that
\* takes the instruction byte as register address: one write transaction to the
\* potentiometer
AD524XWrite(S, instruction, length, data, hw) ==
    I2CDeviceWriteBytes(S, AD5241_DEVICE_ADDRESS, instruction, length, data, hw)

\* one driver call: instruction is the byte passed to the write call, after is
\* the value left in instructionByte when the function returns
DriverCall(fn, instruction, after, length, data) ==
    /\ \E hw \in HwSeqs(length + 2) :
         bus' = AD524XWrite(bus, instruction, length, data, hw)
    /\ instructionByte' = after
    /\ call' = Call(fn, AD5241_DEVICE_ADDRESS, instruction, length, data, 0,
                    IF length = 0 THEN 0 ELSE data[1])
    /\ prev' = NoCall
    /\ pc' = "done"
    /\ UNCHANGED <<b, ret, lossless, agent, mssp, exec>>

AD524XSetRDAC1Value ==
    /\ pc = "idle"
    /\ \E value \in DataVals :
         LET ib == BitAnd(instructionByte, 127)
         IN  DriverCall("AD524XSetRDAC1Value", ib, ib, 1, <<value>>)

AD524XSetRDAC2Value ==
    /\ pc = "idle"
    /\ \E value \in DataVals :
         LET ib == BitOr(instructionByte, 128)
         IN  DriverCall("AD524XSetRDAC2Value", ib, ib, 1, <<value>>)

AD524XSetOutput1 ==
    /\ pc = "idle"
    /\ LET ib == BitOr(instructionByte, 16)
       IN  DriverCall("AD524XSetOutput1", ib, ib, 0, <<>>)

AD524XSetOutput2 ==
    /\ pc = "idle"
    /\ LET ib == BitOr(instructionByte, 8)
       IN  DriverCall("AD524XSetOutput2", ib, ib, 0, <<>>)

\* mutant: the mask clears the flag of output 2 as well
AD524XClearOutput1BothFlags ==
    /\ pc = "idle"
    /\ LET ib == BitAnd(instructionByte, 231)
       IN  DriverCall("AD524XClearOutput1", ib, ib, 0, <<>>)

AD524XClearOutput1 ==
    /\ pc = "idle"
    /\ LET ib == BitAnd(instructionByte, 239)
       IN  DriverCall("AD524XClearOutput1", ib, ib, 0, <<>>)

AD524XClearOutput2 ==
    /\ pc = "idle"
    /\ LET ib == BitAnd(instructionByte, 247)
       IN  DriverCall("AD524XClearOutput2", ib, ib, 0, <<>>)

\* mutant: the midscale bit is left set on return
AD524XSetRDAC1MidscaleKeepsBit ==
    /\ pc = "idle"
    /\ LET ib == BitOr(instructionByte, 64)
       IN  DriverCall("AD524XSetRDAC1Midscale", ib, ib, 0, <<>>)

AD524XSetRDAC1Midscale ==
    /\ pc = "idle"
    /\ LET ib == BitOr(instructionByte, 64)
       IN  DriverCall("AD524XSetRDAC1Midscale", ib, BitAnd(ib, 191), 0, <<>>)

AD524XSetRDAC2Midscale ==
    /\ pc = "idle"
    /\ LET ib == BitOr(instructionByte, 192)
       IN  DriverCall("AD524XSetRDAC2Midscale", ib, BitAnd(ib, 191), 0, <<>>)

InitAD524X ==
    /\ pc = "idle"
    /\ instructionByte = 0
    /\ agent = NoAgent
    /\ mssp = MsspIdle
    /\ exec = NoExec
    /\ call = NoCall
    /\ prev = NoCall
    /\ b = 0
    /\ ret = 0
    /\ lossless \in BOOLEAN
    /\ bus = [trace |-> <<>>, mem |-> [a \in Cells |-> 0], ptr |-> 0, sl |-> "idle"]

NextAD524X ==
    \/ AD524XSetRDAC1Value
    \/ AD524XSetRDAC2Value
    \/ AD524XSetOutput1
    \/ AD524XSetOutput2
    \/ AD524XClearOutput1
    \/ AD524XClearOutput2
    \/ AD524XSetRDAC1Midscale
    \/ AD524XSetRDAC2Midscale
    \/ Return

SpecAD524X == InitAD524X /\ [][NextAD524X]_vars

----------------------------------------------------------------------------
(* I2CDeviceWriteBytes and I2CDeviceReadBytes executed statement by        *)
(* statement against the MSSP peripheral: every primitive sets a flag and  *)
(* busy-waits until the hardware changes it.  The bytes carried are left   *)
(* out; bus is not touched.                                                *)

\* lengths of the transfers executed statement by statement
PollLens == {0, 1, 2, 255}

\* SSP1CON1 & 0x0F: I2C master (0x08), firmware controlled master (0x0B), 7-bit slave
MasterModes == {8, 11}
SlaveModes == {6}

\* the primitive called by the statement at a line of the two functions
PrimitiveAt(line) ==
    CASE line \in {156, 194} -> "Start_44"
      [] line \in {157, 158, 161, 195, 196, 200} -> "Write_97"
      [] line = 159 -> "Restart_54"
      [] line = 165 -> "Read_136"
      [] line = 169 -> "NotAck_85"
      [] line = 173 -> "Ack_74"
      [] line \in {177, 202} -> "Stop_64"
      [] OTHER -> "none"

\* the statement executed after the one at a line; 0: the function returns
AfterLine(line) ==
    CASE line = 156 -> 157
      [] line = 157 -> 158
      [] line = 158 -> 159
      [] line = 159 -> 161
      [] line = 161 -> 163
      [] line = 165 -> 167
      [] line \in {169, 173} -> 163
      [] line = 194 -> 195
      [] line = 195 -> 196
      [] line = 196 -> 198
      [] line = 200 -> 198
      [] OTHER -> 0

\* mutant: the loop counter is not advanced
LoopIncrementNone(i) == i

\* i++ on an unsigned char
LoopIncrement(i) == ToUChar(i + 1)

\* the last statement of a loop body: the for statement's i++ follows it
EndsLoopBody(line) == line \in {169, 173, 200}

\* the flag a condition primitive sets, and the position of its busy-wait
ConditionFlag(prim) ==
    CASE prim = "Start_44" -> "SEN"
      [] prim = "Restart_54" -> "RSEN"
      [] prim = "Stop_64" -> "PEN"
      [] prim \in {"Ack_74", "NotAck_85"} -> "ACKEN"

ConditionWait(prim) ==
    CASE prim = "Start_44" -> "Start_45"
      [] prim = "Restart_54" -> "Restart_55"
      [] prim = "Stop_64" -> "Stop_65"
      [] prim = "Ack_74" -> "Ack_76"
      [] prim = "NotAck_85" -> "NotAck_87"

ConditionPrims == {"Start_44", "Restart_54", "Stop_64", "Ack_74", "NotAck_85"}

ConditionWaits == {ConditionWait(p) : p \in ConditionPrims}

WritePrims == {"Write_97", "Write_99", "Write_108", "Write_118", "Write_120", "Write_122"}

\* the current primitive returns to the statement that called it
PrimitiveReturns ==
    IF AfterLine(exec.line) = 0
    THEN pc' = "done" /\ exec' = NoExec
    ELSE /\ pc' = pc
         /\ exec' = [line |-> AfterLine(exec.line),
                     prim |-> "none",
                     i    |-> IF EndsLoopBody(exec.line)
                              THEN LoopIncrement(exec.i) ELSE exec.i]

PollCallWriteBytes ==
    /\ pc = "idle"
    /\ \E deviceAddress \in BitDevs, address \in BitRegs, length \in PollLens :
         call' = Call("WriteBytes", deviceAddress, address, length, <<>>, 0, 0)
    /\ pc' = "exec"
    /\ exec' = [line |-> 194, prim |-> "none", i |-> 0]
    /\ UNCHANGED <<prev, b, ret, bus, lossless, instructionByte, agent, mssp>>

PollCallReadBytes ==
    /\ pc = "idle"
    /\ \E deviceAddress \in BitDevs, address \in BitRegs, length \in PollLens :
         call' = Call("ReadBytes", deviceAddress, address, length, <<>>, 0, 0)
    /\ pc' = "exec"
    /\ exec' = [line |-> 156, prim |-> "none", i |-> 0]
    /\ UNCHANGED <<prev, b, ret, bus, lossless, instructionByte, agent, mssp>>

\* a statement that calls a primitive; the status of an earlier I2CWrite, which
\* no statement stores, is gone
CallPrimitive ==
    /\ pc = "exec"
    /\ exec.prim = "none"
    /\ PrimitiveAt(exec.line) # "none"
    /\ exec' = [exec EXCEPT !.prim = PrimitiveAt(exec.line)]
    /\ ret' = 0
    /\ UNCHANGED <<pc, call, prev, b, bus, lossless, instructionByte, agent, mssp>>

\* i < length of the two for loops, and i == (length - 1) of the read loop
LoopTest ==
    /\ pc = "exec"
    /\ exec.prim = "none"
    /\ exec.line \in {163, 167, 198}
    /\ exec' = [exec EXCEPT !.line =
                   CASE exec.line = 163 -> IF exec.i < call.length THEN 165 ELSE 177
                     [] exec.line = 167 -> IF exec.i = call.length - 1 THEN 169 ELSE 173
                     [] exec.line = 198 -> IF exec.i < call.length THEN 200 ELSE 202]
    /\ ret' = 0
    /\ UNCHANGED <<pc, call, prev, b, bus, lossless, instructionByte, agent, mssp>>

\* SEN = 1, RSEN = 1, PEN = 1 or ACKEN = 1
RequestCondition ==
    /\ pc = "exec"
    /\ exec.prim \in ConditionPrims
    /\ mssp' = [mssp EXCEPT !.flag = ConditionFlag(exec.prim)]
    /\ exec' = [exec EXCEPT !.prim = ConditionWait(exec.prim)]
    /\ UNCHANGED <<pc, call, prev, b, ret, bus, lossless, instructionByte, agent>>

\* while (flag); leaves the loop once the hardware has cleared the flag
AwaitCondition ==
    /\ pc = "exec"
    /\ exec.prim \in ConditionWaits
    /\ mssp.flag = "none"
    /\ PrimitiveReturns
    /\ UNCHANGED <<call, prev, b, ret, bus, lossless, instructionByte, agent, mssp>>

\* SSP1BUF = data_out: the hardware flags a write collision, or starts to shift
\* the byte out (BF and R_W set)
WriteLoad ==
    /\ pc = "exec"
    /\ exec.prim = "Write_97"
    /\ \E collision \in BOOLEAN :
         mssp' = [mssp EXCEPT !.WCOL = collision,
                              !.flag = IF collision THEN @ ELSE "BF"]
    /\ exec' = [exec EXCEPT !.prim = "Write_99"]
    /\ UNCHANGED <<pc, call, prev, b, ret, bus, lossless, instructionByte, agent>>

\* if (SSP1CON1bits.WCOL) return (-1); otherwise the branch on the mode
WriteCheckCollision ==
    /\ pc = "exec"
    /\ exec.prim = "Write_99"
    /\ IF mssp.WCOL
       THEN /\ ret' = I2CWriteStatus([WCOL |-> TRUE, ACKSTAT |-> mssp.ACKSTAT])
            /\ PrimitiveReturns
       ELSE /\ ret' = ret
            /\ pc' = pc
            /\ exec' = [exec EXCEPT !.prim =
                           IF mssp.SSPM \in MasterModes THEN "Write_118" ELSE "Write_108"]
    /\ UNCHANGED <<call, prev, b, bus, lossless, instructionByte, agent, mssp>>

\* slave branch: while (!PIR1bits.SSP1IF); then -2 or 0 from R_W and BF
WriteSlave ==
    /\ pc = "exec"
    /\ exec.prim = "Write_108"
    /\ mssp.flag = "none"
    /\ \E notReceived \in BOOLEAN : ret' = IF notReceived THEN I2C_NACK ELSE 0
    /\ PrimitiveReturns
    /\ UNCHANGED <<call, prev, b, bus, lossless, instructionByte, agent, mssp>>

\* while (SSP1STATbits.BF);
WriteAwaitBF ==
    /\ pc = "exec"
    /\ exec.prim = "Write_118"
    /\ mssp.flag # "BF"
    /\ exec' = [exec EXCEPT !.prim = "Write_120"]
    /\ UNCHANGED <<pc, call, prev, b, ret, bus, lossless, instructionByte, agent, mssp>>

\* while ((SSP1CON2 & 0x1F) | (SSP1STATbits.R_W));
WriteAwaitIdle ==
    /\ pc = "exec"
    /\ exec.prim = "Write_120"
    /\ mssp.flag = "none"
    /\ exec' = [exec EXCEPT !.prim = "Write_122"]
    /\ UNCHANGED <<pc, call, prev, b, ret, bus, lossless, instructionByte, agent, mssp>>

\* if (SSP1CON2bits.ACKSTAT) return (-2); else return (0);
WriteStatus ==
    /\ pc = "exec"
    /\ exec.prim = "Write_122"
    /\ ret' = I2CWriteStatus([WCOL |-> FALSE, ACKSTAT |-> mssp.ACKSTAT])
    /\ PrimitiveReturns
    /\ UNCHANGED <<call, prev, b, bus, lossless, instructionByte, agent, mssp>>

\* in a master mode RCEN = 1; in both modes the byte is then awaited
ReadEnable ==
    /\ pc = "exec"
    /\ exec.prim = "Read_136"
    /\ mssp' = [mssp EXCEPT !.flag = IF mssp.SSPM \in MasterModes THEN "RCEN" ELSE "RX"]
    /\ exec' = [exec EXCEPT !.prim = "Read_138"]
    /\ UNCHANGED <<pc, call, prev, b, ret, bus, lossless, instructionByte, agent>>

\* while (!SSP1STATbits.BF); return (SSP1BUF);
ReadAwaitBF ==
    /\ pc = "exec"
    /\ exec.prim = "Read_138"
    /\ mssp.flag = "none"
    /\ PrimitiveReturns
    /\ UNCHANGED <<call, prev, b, ret, bus, lossless, instructionByte, agent, mssp>>

\* the peripheral completes what was requested: a condition, the eight data
\* clocks of a transmission (BF cleared, R_W still set), its ninth clock (the
\* slave's answer is latched in ACKSTAT), or the reception of a byte
HwComplete ==
    /\ mssp.flag # "none"
    /\ ~mssp.stalled
    /\ \/ /\ mssp.flag = "BF"
          /\ mssp.SSPM \in MasterModes
          /\ mssp' = [mssp EXCEPT !.flag = "R_W"]
       \/ /\ mssp.flag = "R_W"
          /\ \E nack \in BOOLEAN :
               mssp' = [mssp EXCEPT !.flag = "none", !.ACKSTAT = nack]
       \/ /\ mssp.flag \notin {"R_W"}
          /\ mssp.flag = "BF" => mssp.SSPM \notin MasterModes
          /\ mssp' = [mssp EXCEPT !.flag = "none"]
    /\ UNCHANGED <<pc, call, prev, b, ret, bus, lossless, instructionByte, agent, exec>>

\* the bus is stuck or the device is gone: the awaited flag never changes again
HwStall ==
    /\ mssp.flag # "none"
    /\ ~mssp.stalled
    /\ mssp' = [mssp EXCEPT !.stalled = TRUE]
    /\ UNCHANGED <<pc, call, prev, b, ret, bus, lossless, instructionByte, agent, exec>>

InitPoll ==
    /\ pc = "idle"
    /\ instructionByte = 0
    /\ agent = NoAgent
    /\ \E mode \in MasterModes \cup SlaveModes : mssp = [MsspIdle EXCEPT !.SSPM = mode]
    /\ exec = NoExec
    /\ call = NoCall
    /\ prev = NoCall
    /\ b = 0
    /\ ret = 0
    /\ lossless = FALSE
    /\ bus = [trace |-> <<>>, mem |-> [a \in Cells |-> 0], ptr |-> 0, sl |-> "idle"]

\* the statements of the program
ProgramStep ==
    \/ PollCallWriteBytes
    \/ PollCallReadBytes
    \/ CallPrimitive
    \/ LoopTest
    \/ RequestCondition
    \/ AwaitCondition
    \/ WriteLoad
    \/ WriteCheckCollision
    \/ WriteSlave
    \/ WriteAwaitBF
    \/ WriteAwaitIdle
    \/ WriteStatus
    \/ ReadEnable
    \/ ReadAwaitBF
    \/ Return

NextPoll ==
    \/ ProgramStep
    \/ HwComplete
    \/ HwStall

SpecPoll == InitPoll /\ [][NextPoll]_vars

\* the processor keeps executing, and hardware that is not stalled completes
\* what it was asked for
SpecPollFair == SpecPoll /\ WF_vars(ProgramStep) /\ WF_vars(HwComplete)

----------------------------------------------------------------------------
(* Properties.                                                             *)

T == bus.trace

Bit(x, k) == (x \div (2 ^ k)) % 2

Field(x, bitStart, length) == (x \div (2 ^ (bitStart - length + 1))) % (2 ^ length)

CountEv(e) == Cardinality({k \in DOMAIN T : T[k].ev = e})

ReadBytesDone == pc = "done" /\ call.fn \in {"ReadBytes", "ReadByte"}

WriteBytesDone == pc = "done" /\ call.fn \in {"WriteBytes", "WriteByte"}

\* C1: on a lossless single-register device, I2CDeviceReadBits called immediately
\* after I2CDeviceWriteBits on the same field returns (returns at all, and
\* returns) the written value modulo 2^length.
C1_WriteBitsThenReadBits ==
    (call.fn = "ReadBits" /\ prev.fn = "WriteBits")
        => /\ pc \notin {"undefined", "hang"}
           /\ pc = "done" => ret = prev.value % (2 ^ call.length)

\* C2: the byte I2CDeviceWriteBits writes back equals the byte it read in every
\* bit position outside [bitStart-length+1 .. bitStart].
C2_WriteBitsKeepsOutsideBits ==
    [][pc = "WriteBits_317"
         => \A k \in 0..7 :
              (k > call.bit \/ k < call.bit - call.length + 1)
                  => Bit(bus'.trace[Len(bus'.trace) - 1].byte, k) = Bit(b, k)]_vars

\* C3: for every field in the contract, including those that contain bit 0,
\* I2CDeviceReadBits returns the field of the register, right-aligned.
C3_ReadBitsReturnsField ==
    call.fn = "ReadBits"
        => /\ pc \notin {"undefined", "hang"}
           /\ pc = "done"
                => ret = Field(bus.mem[call.address], call.bit, call.length)

\* C4: on a lossless device I2CDeviceWriteBit leaves bit _bit of the register
\* equal to (value # 0) and the other seven bits as they were, and
\* I2CDeviceReadBit called immediately after it returns nonzero exactly when
\* value was nonzero.
C4_WriteBitThenReadBit ==
    /\ []((pc = "done" /\ call.fn = "WriteBit")
            => Bit(bus.mem[call.address], call.bit) = (IF call.value # 0 THEN 1 ELSE 0))
    /\ []((pc = "done" /\ call.fn = "ReadBit" /\ prev.fn = "WriteBit")
            => ((ret # 0) <=> (prev.value # 0)))
    /\ [][pc = "WriteBit_283"
            => \A k \in (0..7) \ {call.bit} :
                 Bit(bus'.mem[call.address], k) = Bit(bus.mem[call.address], k)]_vars

C4_Witness ==
    /\ pc = "done"
    /\ call.fn = "ReadBit"
    /\ prev.fn = "WriteBit"
    /\ prev.value = 0
    /\ call.bit = 7
    /\ ret = 0
    /\ bus.mem[call.address] = 127

\* C5: on a lossless bus with an auto-incrementing slave, I2CDeviceReadBytes
\* called immediately after I2CDeviceWriteBytes with the same device, register
\* and length reads back the buffer that was written.
C5_WriteBytesThenReadBytes ==
    (lossless /\ pc = "done" /\ call.fn = "ReadBytes" /\ prev.fn = "WriteBytes")
        => /\ Len(call.data) = call.length
           /\ \A k \in 1..call.length : call.data[k] = prev.data[k]

C5_Witness ==
    /\ lossless
    /\ pc = "done"
    /\ call.fn = "ReadBytes"
    /\ prev.fn = "WriteBytes"
    /\ call.length = 2
    /\ call.data = <<16, 165>>

\* C6: in every I2CDeviceReadBytes call of length >= 1 each received byte is
\* followed by one acknowledge-phase signal: Ack after bytes 0..length-2,
\* NotAck after byte length-1, so one NotAck and length-1 Acks in all.
C6_ReadBytesAckPhases ==
    (ReadBytesDone /\ call.length >= 1)
        => /\ Len(T) = 6 + 2 * call.length
           /\ \A i \in 0..(call.length - 1) :
                /\ T[6 + 2 * i].ev = "Read"
                /\ T[7 + 2 * i].ev = (IF i = call.length - 1 THEN "NotAck" ELSE "Ack")
           /\ CountEv("NotAck") = 1
           /\ CountEv("Ack") = call.length - 1

C6_Witness ==
    /\ ReadBytesDone
    /\ call.length = 2
    /\ T[7].ev = "Ack"
    /\ T[9].ev = "NotAck"

\* C7: every I2CDeviceReadBytes call produces Start, Write(device address with
\* bit 0 clear), Write(register address), Restart, Write(device address with bit 0
\* set), the reads, Stop: one Restart, no second Start and no Stop before the end,
\* whatever device address is passed and whatever the slave answers.
C7_ReadBytesConditionSequence ==
    ReadBytesDone
        => /\ T[1].ev = "Start"
           /\ T[2].ev = "Write"
           /\ T[2].byte = call.deviceAddress - (call.deviceAddress % 2)
           /\ T[3].ev = "Write"
           /\ T[3].byte = call.address
           /\ T[4].ev = "Restart"
           /\ T[5].ev = "Write"
           /\ T[5].byte = call.deviceAddress - (call.deviceAddress % 2) + 1
           /\ \A k \in 6..(Len(T) - 1) : T[k].ev \in {"Read", "Ack", "NotAck"}
           /\ T[Len(T)].ev = "Stop"
           /\ CountEv("Start") = 1
           /\ CountEv("Restart") = 1
           /\ CountEv("Stop") = 1

C7_Witness ==
    /\ ReadBytesDone
    /\ call.deviceAddress = 177
    /\ T[2].st = I2C_NACK
    /\ T[4].ev = "Restart"
    /\ call.length = 2

ExpectedWriteTrace(c) ==
    <<Ev("Start", 0, 0),
      Ev("Write", c.deviceAddress - (c.deviceAddress % 2), 0),
      Ev("Write", c.address, 0)>>
    \o [k \in 1..c.length |-> Ev("Write", c.data[k], 0)]
    \o <<Ev("Stop", 0, 0)>>

\* C8: when every byte is acknowledged, I2CDeviceWriteBytes produces exactly
\* Start, Write(device address with bit 0 clear), Write(register), the data bytes
\* in index order, Stop; I2CDeviceWriteByte(0xB0, 0x00, 0x10) produces
\* Start, Write(0xB0), Write(0x00), Write(0x10), Stop.
C8_WriteBytesTrace ==
    (lossless /\ WriteBytesDone)
        => /\ T = ExpectedWriteTrace(call)
           /\ (call.fn = "WriteByte" /\ call.deviceAddress = 176
                  /\ call.address = 0 /\ call.value = 16)
                => T = <<Ev("Start", 0, 0), Ev("Write", 176, 0), Ev("Write", 0, 0),
                         Ev("Write", 16, 0), Ev("Stop", 0, 0)>>

C8_Witness ==
    /\ lossless
    /\ pc = "done"
    /\ call.fn = "WriteByte"
    /\ call.deviceAddress = 176
    /\ call.address = 0
    /\ call.value = 16
    /\ Len(T) = 5

\* C9: when the device-address byte of an I2CDeviceWriteBytes call is not
\* acknowledged, the call still ends with a Stop, and issues exactly one Stop.
C9_StopAfterAddressNack ==
    (WriteBytesDone /\ T[2].st = I2C_NACK)
        => /\ T[Len(T)].ev = "Stop"
           /\ CountEv("Stop") = 1

C9_Witness ==
    /\ WriteBytesDone
    /\ call.fn = "WriteBytes"
    /\ call.length = 2
    /\ T[2].ev = "Write"
    /\ T[2].st = I2C_NACK
    /\ T[Len(T)].ev = "Stop"

\* C10: in I2CDeviceWriteBytes a byte that is not acknowledged is the last byte
\* loaded into the transmit register: the next bus event is Stop.
C10_AbandonOnNack ==
    WriteBytesDone
        => \A k \in 1..(Len(T) - 1) :
             (T[k].ev = "Write" /\ T[k].st = I2C_NACK) => T[k + 1].ev = "Stop"

\* C11: in a master mode I2CWrite returns one of three pairwise distinct codes:
\* the collision code at once, before any busy-wait, when WCOL is set after the
\* load of SSP1BUF; otherwise, after both busy-waits, the NACK code when ACKSTAT
\* is set and 0 when it is clear; so 0 only without collision and with an
\* acknowledge.
C11_WriteStatusCodes ==
    [][(mssp.SSPM \in MasterModes /\ exec.prim \in WritePrims /\ exec' # exec)
          => /\ Cardinality({0, I2C_NACK, I2C_WCOL}) = 3
             /\ (exec.prim = "Write_99" /\ mssp.WCOL)
                  => (ret' = I2C_WCOL /\ exec'.prim = "none")
             /\ (exec.prim = "Write_99" /\ ~mssp.WCOL)
                  => exec'.prim = "Write_118"
             /\ exec'.prim \in {"none"}
                  => /\ exec.prim \in {"Write_99", "Write_122"}
                     /\ ret' \in {0, I2C_NACK, I2C_WCOL}
                     /\ exec.prim = "Write_122"
                          => ret' = (IF mssp.ACKSTAT THEN I2C_NACK ELSE 0)
                     /\ ret' = 0 => (~mssp.WCOL /\ ~mssp.ACKSTAT /\ mssp.flag = "none")]_vars

C11_Witness ==
    /\ mssp.SSPM = 11
    /\ call.fn = "WriteBytes"
    /\ exec.line = 196
    /\ exec.prim = "none"
    /\ ret = I2C_NACK
    /\ mssp.ACKSTAT

\* C12: when another agent changes the register between the read transaction and
\* the write transaction of I2CDeviceWriteBit or I2CDeviceWriteBits, the function
\* writes back the byte computed from the stale byte b it read: outside the target
\* bit the register ends with the stale bits, the other agent's change is lost,
\* and the call completes with its one read and one write transaction and
\* nothing reported.
C12_StaleWriteBack ==
    [][(pc \in {"WriteBit_283", "WriteBits_317"} /\ pc' = "done")
          => /\ call.fn = "WriteBit"
                  => /\ \A k \in (0..7) \ {call.bit} :
                          Bit(bus'.mem[call.address], k) = Bit(b, k)
                     /\ Bit(bus'.mem[call.address], call.bit)
                          = (IF call.value # 0 THEN 1 ELSE 0)
             /\ call.fn = "WriteBits"
                  => bus'.mem[call.address]
                       = WriteBitsByte(b, call.bit, call.length, call.value)
             /\ Len(bus'.trace) = 13
             /\ Cardinality({k \in DOMAIN bus'.trace : bus'.trace[k].ev = "Start"}) = 2
             /\ ret' = ret
             /\ agent' = agent]_vars

C12_Witness ==
    /\ pc = "done"
    /\ call.fn = "WriteBit"
    /\ call.bit = 0
    /\ call.value = 255
    /\ agent = 255
    /\ bus.mem[call.address] = 1

DriverFns ==
    {"AD524XSetRDAC1Value", "AD524XSetRDAC2Value", "AD524XSetOutput1", "AD524XSetOutput2",
     "AD524XClearOutput1", "AD524XClearOutput2", "AD524XSetRDAC1Midscale",
     "AD524XSetRDAC2Midscale"}

\* a driver function has returned; call.address is the instruction byte it passed
\* to the write call
DriverDone == pc = "done" /\ call.fn \in DriverFns

\* C13: whatever driver calls came before, the instruction byte that
\* AD524XSetRDAC1Midscale passes to the write call selects RDAC 1 at midscale:
\* bit 7 is 0 and bit 6 is 1.
C13_RDAC1MidscaleSelectsRDAC1 ==
    (DriverDone /\ call.fn = "AD524XSetRDAC1Midscale")
        => /\ Bit(call.address, 7) = 0
           /\ Bit(call.address, 6) = 1

\* C14: for every field of the contract, bitStart = length - 1 included, the
\* extraction loop of I2CDeviceReadBits runs exactly length times, shifts only by
\* amounts in 0..7, and the function goes on to return.
C14_ReadBitsLoopTerminates ==
    call.fn = "ReadBits"
        => LET shifts == ReadBitsShifts(call.bit, call.bit, call.length, <<>>)
           IN  /\ Len(shifts) = call.length
               /\ \A k \in DOMAIN shifts : shifts[k] \in 0..7
               /\ pc = "done"

\* C15: every I2CDeviceWriteBit and I2CDeviceWriteBits call puts on the bus one
\* complete read transaction of the register (Start, address, register, Restart,
\* address, Read, NotAck, Stop) and then one complete write transaction (Start,
\* address, register, byte, Stop) to the same device and register, and the byte
\* written is the byte read with the bit set or cleared, or masked and merged.
C15_ReadThenWriteTransaction ==
    (pc = "done" /\ call.fn \in {"WriteBit", "WriteBits"})
        => /\ [k \in 1..Len(T) |-> T[k].ev]
                = <<"Start", "Write", "Write", "Restart", "Write", "Read", "NotAck",
                    "Stop", "Start", "Write", "Write", "Write", "Stop">>
           /\ T[2].byte = call.deviceAddress - (call.deviceAddress % 2)
           /\ T[3].byte = call.address
           /\ T[5].byte = T[2].byte + 1
           /\ T[10].byte = T[2].byte
           /\ T[11].byte = call.address
           /\ T[12].byte
                = (IF call.fn = "WriteBit"
                   THEN IF call.value # 0
                        THEN T[6].byte + (1 - Bit(T[6].byte, call.bit)) * (2 ^ call.bit)
                        ELSE T[6].byte - Bit(T[6].byte, call.bit) * (2 ^ call.bit)
                   ELSE BitOr(BitAnd(T[6].byte, WriteBitsMask(call.bit, call.length)),
                              WriteBitsValue(call.value, call.bit, call.length)))

C15_Witness ==
    /\ pc = "done"
    /\ call.fn = "WriteBits"
    /\ call.bit = 4
    /\ call.length = 3
    /\ Len(T) = 13
    /\ T[6].byte = 175
    /\ T[12].byte = 191

\* the transactions open after the first k bus events of the call
Open(k) ==
    Cardinality({j \in 1..k : T[j].ev = "Start"}) - Cardinality({j \in 1..k : T[j].ev = "Stop"})

\* C16: under every pattern of ACK, NACK and collision each byte function returns
\* with the bus idle: Start is issued only with no transaction open, every other
\* bus event only with one open, each Start has its one Stop, and Stop is the last
\* event of the call.
C16_BusIdleOnReturn ==
    /\ pc = "idle" => (T = <<>> /\ bus.sl = "idle")
    /\ pc = "done"
         => /\ Len(T) >= 1
            /\ T[Len(T)].ev = "Stop"
            /\ Open(Len(T)) = 0
            /\ bus.sl = "idle"
            /\ \A k \in DOMAIN T :
                 Open(k - 1) = (IF T[k].ev = "Start" THEN 0 ELSE 1)

C16_Witness ==
    /\ ReadBytesDone
    /\ call.length = 2
    /\ T[2].st = I2C_WCOL
    /\ T[5].st = I2C_NACK
    /\ T[10].ev = "Stop"

\* C17: with a peripheral that completes what it is asked for, every
\* I2CDeviceWriteBytes and I2CDeviceReadBytes call returns, for the lengths 0, 1,
\* 2 and 255 and every ACK/NACK/collision result; once an awaited flag is stuck
\* the call never returns (and, being void, reports nothing).
C17_TerminatesUnlessStalled ==
    /\ (pc = "exec") ~> (pc = "done" \/ mssp.stalled)
    /\ [](mssp.stalled => (pc = "exec" /\ mssp.flag # "none"))
    /\ [][mssp.stalled => (mssp'.stalled /\ ret' = ret)]_vars

C17_Witness ==
    /\ pc = "done"
    /\ call.fn = "ReadBytes"
    /\ call.length = 255
    /\ ~mssp.stalled

\* C18: the output flags accumulate.  AD524XSetOutput1 (AD524XSetOutput2) sets
\* bit 4 (bit 3) of instructionByte, AD524XClearOutput1 (AD524XClearOutput2)
\* clears it, no other driver call changes either bit, and every call passes
\* both bits to the write call as instructionByte holds them.
C18_OutputFlagsAccumulate ==
    /\ [](DriverDone
            => /\ Bit(call.address, 4) = Bit(instructionByte, 4)
               /\ Bit(call.address, 3) = Bit(instructionByte, 3))
    /\ [][(pc = "idle" /\ pc' = "done")
            => /\ Bit(instructionByte', 4)
                    = (CASE call'.fn = "AD524XSetOutput1" -> 1
                         [] call'.fn = "AD524XClearOutput1" -> 0
                         [] OTHER -> Bit(instructionByte, 4))
               /\ Bit(instructionByte', 3)
                    = (CASE call'.fn = "AD524XSetOutput2" -> 1
                         [] call'.fn = "AD524XClearOutput2" -> 0
                         [] OTHER -> Bit(instructionByte, 3))]_vars

C18_Witness ==
    /\ DriverDone
    /\ call.fn = "AD524XSetRDAC2Value"
    /\ call.address = 152
    /\ instructionByte = 152

\* C19: from instructionByte = 0, bits 6 and 5 of instructionByte are 0 whenever
\* no driver function is executing, and the value and output functions never
\* pass an instruction byte with bit 6 set to the write call.
C19_MidscaleBitClearOnReturn ==
    /\ pc \in {"idle", "done"}
         => (Bit(instructionByte, 6) = 0 /\ Bit(instructionByte, 5) = 0)
    /\ (DriverDone /\ call.fn \notin {"AD524XSetRDAC1Midscale", "AD524XSetRDAC2Midscale"})
         => Bit(call.address, 6) = 0

C19_Witness ==
    /\ DriverDone
    /\ call.fn = "AD524XSetRDAC2Midscale"
    /\ call.address = 216
    /\ instructionByte = 152

\* C20: I2CDeviceReadBit returns 1 when bit _bit of the register is set and 0
\* when it is clear, the value I2CDeviceReadBits returns for the one-bit field
\* at _bit.
C20_ReadBitReturnsBit ==
    (pc = "done" /\ call.fn = "ReadBit")
        => LET bv == bus.mem[call.address]
               L == ReadBitsLoop(bv, call.bit, 0, call.bit, 1)
           IN  /\ ret = Bit(bv, call.bit)
               /\ ~L.undefined
               /\ ret = ReadBitsAlign(L.r, call.bit, 1)

====
